---- MODULE Spec2Model ----
(***************************************************************************)
(* Model of round_1_v2.0.1.py: the per-tick market-making engine           *)
(* (Status, Calculate.update_price, Strategy.market_making, Trader.run).   *)
(*                                                                         *)
(* Representation of numbers.  Prices of book levels, quantities,          *)
(* positions and timestamps are Python ints and are integers here.  Every  *)
(* other number of the program is a Python float; it is represented by the *)
(* integer number of thousandths it stands for (9.02 is 9020).  On the     *)
(* inputs of this model every float the program computes is a multiple of  *)
(* 1/1000 (mid prices are halves, the moving average is a tenth, the vwap  *)
(* figures are rounded to hundredths, the scale factors are 0.75, 0.8, 2.0 *)
(* and 0.5), so the integer arithmetic below is exact decimal arithmetic.   *)
(* Python computes in binary floating point, where a value that is an      *)
(* integer in decimal arithmetic can come out one ulp off and move a ceil  *)
(* or floor by one.  The books, positions, timestamps and moving averages  *)
(* drawn below are inputs on which this does not happen: on each of them   *)
(* market_making here returns the orders the Python code returns.          *)
(***************************************************************************)
EXTENDS Integers, Sequences, FiniteSets, TLC

VARIABLES
    state,        \* the TradingState handed to the current call
    data_price,   \* Trader._data['PEARLS']['price'], the rolling window
    sma,          \* the moving average handed to market_making
    result,       \* the orders the current call returned
    pc,           \* position of the current call
    arrivals      \* history: the most recent update_price calls, in arrival order

vars == <<state, data_price, sma, result, pc, arrivals>>

-----------------------------------------------------------------------------
(* Arithmetic of the Python built-ins the program uses.                    *)

Abs(x) == IF x < 0 THEN -x ELSE x

Min2(a, b) == IF a <= b THEN a ELSE b

Max2(a, b) == IF a >= b THEN a ELSE b

SetMin(S) == CHOOSE x \in S : \A y \in S : x <= y

SetMax(S) == CHOOSE x \in S : \A y \in S : x >= y

\* math.floor(n / d) for d > 0
FloorDiv(n, d) == n \div d

\* math.ceil(n / d) for d > 0
CeilDiv(n, d) == -((-n) \div d)

\* round(n / d) for d > 0: to the nearest integer, ties to the even one
RoundDiv(n, d) ==
    LET q == n \div d
        r == n % d
    IN  IF 2 * r < d THEN q
        ELSE IF 2 * r > d THEN q + 1
        ELSE IF q % 2 = 0 THEN q ELSE q + 1

\* round(n / d, 2) in thousandths, for d # 0
Round2(n, d) ==
    IF d > 0 THEN 10 * RoundDiv(100 * n, d) ELSE 10 * RoundDiv(-100 * n, -d)

RECURSIVE SumSeq(_)
SumSeq(s) == IF s = <<>> THEN 0 ELSE Head(s) + SumSeq(Tail(s))

\* the loops of spread_vwap: sum of price * quantity and sum of quantity
RECURSIVE SumPQ(_, _)
SumPQ(f, S) ==
    IF S = {} THEN 0
    ELSE LET p == CHOOSE x \in S : TRUE
         IN  p * f[p] + SumPQ(f, S \ {p})

RECURSIVE SumQ(_, _)
SumQ(f, S) ==
    IF S = {} THEN 0
    ELSE LET p == CHOOSE x \in S : TRUE
         IN  f[p] + SumQ(f, S \ {p})

-----------------------------------------------------------------------------
(* class Status                                                            *)

POSITION_LIMIT == 20

\* Status.__init__ raises: min() or max() of an empty book side
StatusRaises(st) ==
    \/ DOMAIN st.order_depth.sell_orders = {}
    \/ DOMAIN st.order_depth.buy_orders = {}

best_ask(st) == SetMin(DOMAIN st.order_depth.sell_orders)

best_bid(st) == SetMax(DOMAIN st.order_depth.buy_orders)

\* spread_mid: the spread, an int
spread(st) == best_ask(st) - best_bid(st)

\* spread_mid: the mid price, in thousandths
mid_price(st) == (best_ask(st) + best_bid(st)) * 500

ask_num(st) == SumPQ(st.order_depth.sell_orders, DOMAIN st.order_depth.sell_orders)

ask_den(st) == SumQ(st.order_depth.sell_orders, DOMAIN st.order_depth.sell_orders)

bid_num(st) == SumPQ(st.order_depth.buy_orders, DOMAIN st.order_depth.buy_orders)

bid_den(st) == SumQ(st.order_depth.buy_orders, DOMAIN st.order_depth.buy_orders)

\* spread_vwap: round(ask_vwap - bid_vwap, 2), in thousandths
eff_spread(st) ==
    Round2(ask_num(st) * bid_den(st) - bid_num(st) * ask_den(st),
           ask_den(st) * bid_den(st))

\* spread_vwap: round((ask_vwap + bid_vwap) / 2, 2), in thousandths
mid_vwap(st) ==
    Round2(ask_num(st) * bid_den(st) + bid_num(st) * ask_den(st),
           2 * ask_den(st) * bid_den(st))

-----------------------------------------------------------------------------
(* class Calculate                                                         *)

WarmUp == 400

\* variant: the oldest entry is already evicted at the warm-up timestamp
update_price_at_warmup(data, st) ==
    LET evicted == IF st.timestamp >= WarmUp
                   THEN (IF data = <<>> THEN data ELSE Tail(data))
                   ELSE data
    IN  Append(evicted, mid_price(st))

update_price(data, st) ==
    LET evicted == IF st.timestamp > WarmUp
                   THEN (IF data = <<>> THEN data ELSE Tail(data))
                   ELSE data
    IN  Append(evicted, mid_price(st))

-----------------------------------------------------------------------------
(* class Strategy                                                          *)

Order(price, quantity) ==
    [symbol |-> "PEARLS", price |-> price, quantity |-> quantity]

\* variant: the price shift is switched on one tick before the warm-up ends
price_shift_early(st, s) ==
    IF st.timestamp < WarmUp - 100 THEN 0
    ELSE -((3 * (mid_price(st) - s)) \div 4)

\* mm_price: shift = -sma_scale * (mid_price - sma), sma_scale = 0.75
price_shift(st, s) ==
    IF st.timestamp < WarmUp THEN 0
    ELSE -((3 * (mid_price(st) - s)) \div 4)

mm_price(st, s) == mid_vwap(st) + price_shift(st, s)

\* mm_spread: eff_spread * (1 - trend)
mm_spread(st, trend) == (eff_spread(st) * (1000 - trend)) \div 1000

\* inventory_skew: determination of bid price
bid_price(price, spr) ==
    LET raw == CeilDiv(2 * price - spr, 2000)
    IN  IF raw * 1000 >= price THEN raw - 1 ELSE raw

\* variant: an ask at or below the reservation price is left where it is
ask_price_unadjusted(price, spr) == FloorDiv(2 * price + spr, 2000)

\* inventory_skew: determination of ask price
ask_price(price, spr) ==
    LET raw == FloorDiv(2 * price + spr, 2000)
    IN  IF raw * 1000 <= price THEN bid_price(price, spr) + 1 ELSE raw

\* variant: the stop loss only starts above 90 percent of the limit
stop_loss_strict(st) == 10 * Abs(st.position) > 9 * POSITION_LIMIT

\* inventory_skew: abs(self.position) >= 0.9 * self.limit
stop_loss(st) == 10 * Abs(st.position) >= 9 * POSITION_LIMIT

\* inventory_skew: the order of the stop-loss branch
stop_loss_orders(st) ==
    IF st.position > 0
    THEN << Order(best_ask(st), st.order_depth.sell_orders[best_ask(st)]) >>
    ELSE << Order(best_bid(st), st.order_depth.buy_orders[best_bid(st)]) >>

\* inventory_skew: shift = round(-sma_scale * (mid_price - sma)), sma_scale = 2.0
quantity_shift(st, s) ==
    IF st.timestamp < WarmUp THEN 0
    ELSE RoundDiv(-2 * (mid_price(st) - s), 1000)

\* variant: the room of the bid side grows with a long position
bid_quantity_sign_slip(st, s) ==
    LET bid_limit == POSITION_LIMIT + Max2(st.position, 0)
        bid_skew  == FloorDiv(Max2(st.position, 0), 2)
        quantity  == Max2(bid_limit - bid_skew, 0)
    IN  Max2(Min2(bid_limit, quantity + quantity_shift(st, s)), 0)

\* inventory_skew: the bid quantity of the two-sided branch, skew = 0.5
bid_quantity(st, s) ==
    LET bid_limit == POSITION_LIMIT - Max2(st.position, 0)
        bid_skew  == FloorDiv(Max2(st.position, 0), 2)
        quantity  == Max2(bid_limit - bid_skew, 0)
    IN  Max2(Min2(bid_limit, quantity + quantity_shift(st, s)), 0)

\* inventory_skew: the ask quantity of the two-sided branch, skew = 0.5
ask_quantity(st, s) ==
    LET ask_limit == -POSITION_LIMIT - Min2(st.position, 0)
        ask_skew  == CeilDiv(Min2(st.position, 0), 2)
        quantity  == Min2(ask_limit - ask_skew, 0)
    IN  Min2(Max2(ask_limit, quantity + quantity_shift(st, s)), 0)

\* variant: only the bid side of the quote is checked against the book
bad_quote_bid_only(st, price, spr) == bid_price(price, spr) > best_ask(st)

\* inventory_skew: the check for any bad quote or taker quote
bad_quote(st, price, spr) ==
    \/ bid_price(price, spr) > best_ask(st)
    \/ ask_price(price, spr) < best_bid(st)

inventory_skew(st, price, spr, s) ==
    IF stop_loss(st) THEN stop_loss_orders(st)
    ELSE IF bad_quote(st, price, spr) THEN << >>
    ELSE << Order(bid_price(price, spr), bid_quantity(st, s)),
            Order(ask_price(price, spr), ask_quantity(st, s)) >>

market_making(st, trend, s) ==
    inventory_skew(st, mm_price(st, s), mm_spread(st, trend), s)

-----------------------------------------------------------------------------
(* class Trader                                                            *)

\* Trader._data['PEARLS']['trend'] = 0.2, in thousandths
TREND == 200

RECURSIVE bid_order_count(_)
\* _count_order: the total quantity of the orders with quantity > 0
bid_order_count(orders) ==
    IF orders = << >> THEN 0
    ELSE (IF Head(orders).quantity > 0 THEN Head(orders).quantity ELSE 0)
         + bid_order_count(Tail(orders))

RECURSIVE ask_order_count(_)
\* _count_order: the total quantity of the orders with quantity < 0
ask_order_count(orders) ==
    IF orders = << >> THEN 0
    ELSE (IF Head(orders).quantity < 0 THEN Head(orders).quantity ELSE 0)
         + ask_order_count(Tail(orders))

\* the divisor of the moving average
WINDOW == 5

\* sum(Trader._data[product]['price']) / 5
sma_of(data) == SumSeq(data) \div WINDOW

\* variant: the oldest entry is evicted before Status is built
run_evict_first(data, st) ==
    IF StatusRaises(st)
    THEN [raised |-> TRUE,
          data   |-> IF st.timestamp > WarmUp /\ data # << >> THEN Tail(data) ELSE data,
          sma    |-> 0,
          result |-> << >>]
    ELSE LET updated == update_price(data, st)
         IN  [raised |-> FALSE,
              data   |-> updated,
              sma    |-> sma_of(updated),
              result |-> market_making(st, TREND, sma_of(updated))]

\* Trader.run: the window, the moving average and the orders after the call
run(data, st) ==
    IF StatusRaises(st)
    THEN [raised |-> TRUE, data |-> data, sma |-> 0, result |-> << >>]
    ELSE LET updated == update_price(data, st)
         IN  [raised |-> FALSE,
              data   |-> updated,
              sma    |-> sma_of(updated),
              result |-> market_making(st, TREND, sma_of(updated))]

-----------------------------------------------------------------------------
(* The inputs the model draws a tick from.                                 *)

BigQuantity == 39

MaxTicks == 6

MaxEarly == 6

BidLevels == {8, 12}

AskLevels == {10, 12}

Quantities == {1, 3, BigQuantity}

\* buy_orders: price -> positive quantity, any subset of the levels
BuySides == UNION { [S -> Quantities] : S \in SUBSET BidLevels }

\* sell_orders: price -> negative quantity, any subset of the levels
SellSides == UNION { [S -> { -q : q \in Quantities }] : S \in SUBSET AskLevels }

OrderDepths == [buy_orders : BuySides, sell_orders : SellSides]

\* the books Status accepts, crossed and locked ones included
FullDepths ==
    { od \in OrderDepths : DOMAIN od.buy_orders # {} /\ DOMAIN od.sell_orders # {} }

Positions == {-20, -18, -17, -6, 0, 5, 17, 18, 20}

Timestamps == {0, 300, 400, 500}

\* moving averages, in thousandths: an under-filled window, flat, above
SmaValues == {5400, 9000, 10000, 12000}

\* the books of a run: unit quantities, either side possibly empty
RunDepths ==
    [buy_orders  : UNION { [S -> {1}] : S \in SUBSET {8} },
     sell_orders : UNION { [S -> {-1}] : S \in SUBSET {10, 11} }]

RunPositions == {-18, 0, 5}

UpdTimestamps == {0, 400, 500, 600}

TradingState(ts, od, pos) ==
    [timestamp |-> ts, order_depth |-> od, position |-> pos]

\* before the first call: no TradingState has been delivered
NoState ==
    TradingState(-100, [buy_orders |-> [p \in {} |-> 0],
                        sell_orders |-> [p \in {} |-> 0]], 0)

\* the last WINDOW + 1 entries of the history
Recent(h) ==
    IF Len(h) <= WINDOW + 1 THEN h
    ELSE SubSeq(h, Len(h) - WINDOW, Len(h))

Arrival(st) == [timestamp |-> st.timestamp, mid_price |-> mid_price(st)]

-----------------------------------------------------------------------------
(* Spec: Trader.run is called once per timestamp 0, 100, 200, ...          *)

Init ==
    /\ state = NoState
    /\ data_price = << >>
    /\ sma = 0
    /\ result = << >>
    /\ pc = "idle"
    /\ arrivals = << >>

Run ==
    /\ state.timestamp + 100 <= 100 * MaxTicks
    /\ \E od \in RunDepths, pos \in RunPositions :
         LET st == TradingState(state.timestamp + 100, od, pos)
             r  == run(data_price, st)
         IN  /\ state' = st
             /\ data_price' = r.data
             /\ sma' = r.sma
             /\ result' = r.result
             /\ pc' = IF r.raised THEN "raised" ELSE "returned"
             /\ arrivals' = IF r.raised THEN arrivals
                            ELSE Recent(Append(arrivals, Arrival(st)))

Next == Run

Spec == Init /\ [][Next]_vars

-----------------------------------------------------------------------------
(* SpecNoFail: the same run when every delivered book has both sides.      *)

RunFull ==
    /\ state.timestamp + 100 <= 100 * MaxTicks
    /\ \E od \in RunDepths, pos \in RunPositions :
         LET st == TradingState(state.timestamp + 100, od, pos)
             r  == run(data_price, st)
         IN  /\ ~StatusRaises(st)
             /\ state' = st
             /\ data_price' = r.data
             /\ sma' = r.sma
             /\ result' = r.result
             /\ pc' = "returned"
             /\ arrivals' = Recent(Append(arrivals, Arrival(st)))

NextNoFail == RunFull

SpecNoFail == Init /\ [][NextNoFail]_vars

-----------------------------------------------------------------------------
(* SpecUpd: update_price alone, called with non-decreasing timestamps.     *)

UpdatePrice ==
    \E ts \in UpdTimestamps, od \in RunDepths :
       LET st == TradingState(ts, od, 0)
       IN  /\ ~StatusRaises(st)
           /\ ts >= state.timestamp
           /\ ts > WarmUp \/ Len(data_price) < MaxEarly
           /\ state' = st
           /\ data_price' = update_price(data_price, st)
           /\ arrivals' = Recent(Append(arrivals, Arrival(st)))
           /\ pc' = "returned"
           /\ UNCHANGED <<sma, result>>

NextUpd == UpdatePrice

SpecUpd == Init /\ [][NextUpd]_vars

-----------------------------------------------------------------------------
(* SpecMM: market_making as a function of one tick's inputs.               *)

InitMM ==
    /\ state \in { TradingState(ts, od, pos) :
                     ts \in Timestamps, od \in FullDepths, pos \in Positions }
    /\ sma \in SmaValues
    /\ data_price = << >>
    /\ result = << >>
    /\ pc = "called"
    /\ arrivals = << >>

MarketMaking ==
    /\ pc = "called"
    /\ result' = market_making(state, TREND, sma)
    /\ pc' = "returned"
    /\ UNCHANGED <<state, data_price, sma, arrivals>>

NextMM == MarketMaking

SpecMM == InitMM /\ [][NextMM]_vars

-----------------------------------------------------------------------------
(* Claims about market_making, checked under SpecMM.                       *)

Returned == pc = "returned"

\* the reservation price and the quoted spread of the current tick
ResvPrice == mm_price(state, sma)

QuotedSpread == mm_spread(state, TREND)

\* the orders market_making returns for the current tick at position p
OrdersAt(p) ==
    market_making(TradingState(state.timestamp, state.order_depth, p), TREND, sma)

\* C1: with |position| <= positionLimit the returned orders keep the position
\* inside the limit: position + buys <= limit and position + sells >= -limit,
\* in the two-sided branch and in the stop-loss branch.
C1_PositionLimit ==
    (Returned /\ Abs(state.position) <= POSITION_LIMIT) =>
        /\ state.position + bid_order_count(result) <= POSITION_LIMIT
        /\ state.position + ask_order_count(result) >= -POSITION_LIMIT

\* C2: outside the stop-loss case market_making returns either no order or a
\* two-sided quote with bid price <= bestAsk and ask price >= bestBid.
C2_QuoteValidity ==
    (Returned /\ Abs(state.position) < 18) =>
        \/ result = << >>
        \/ /\ Len(result) = 2
           /\ result[1].price <= best_ask(state)
           /\ result[2].price >= best_bid(state)

C2_Witness ==
    /\ Returned
    /\ Abs(state.position) < 18
    /\ Len(result) = 2
    /\ result[1].price = best_ask(state)

\* C3: with abs(position) >= 18 market_making returns exactly one order: long,
\* a sell at bestAsk of the quantity resting there; short, a buy at bestBid of
\* the quantity resting there.
C3_StopLoss ==
    (Returned /\ Abs(state.position) >= 18) =>
        /\ Len(result) = 1
        /\ state.position > 0 =>
             /\ result[1].price = SetMin(DOMAIN state.order_depth.sell_orders)
             /\ result[1].quantity = state.order_depth.sell_orders[result[1].price]
             /\ result[1].quantity < 0
        /\ state.position < 0 =>
             /\ result[1].price = SetMax(DOMAIN state.order_depth.buy_orders)
             /\ result[1].quantity = state.order_depth.buy_orders[result[1].price]
             /\ result[1].quantity > 0

C3_Witness ==
    /\ Returned
    /\ state.position = 18
    /\ Len(result) = 1
    /\ result[1].quantity < 0
    /\ bad_quote(state, ResvPrice, QuotedSpread)

\* the positions below the stop-loss threshold
QuotingPositions == { p \in -POSITION_LIMIT .. POSITION_LIMIT : 10 * Abs(p) < 9 * POSITION_LIMIT }

\* C5 as stated: for positions p1 < p2 below the stop-loss threshold and the
\* same book, timestamp and moving average, the bid quantity for p2 is <= the
\* one for p1 and the ask quantity for p2 is >= the one for p1.
C5_SkewMonotone ==
    (Returned /\ Len(result) = 2) =>
        \A p2 \in QuotingPositions :
            p2 > state.position =>
                /\ OrdersAt(p2)[1].quantity <= result[1].quantity
                /\ OrdersAt(p2)[2].quantity >= result[2].quantity

\* C5 amended: for positions p1 < p2 below the stop-loss threshold the bid
\* quantity for p2 is <= the one for p1; the ask quantity for p2 is <= the one
\* for p1 (a short position shrinks the ask), and equal to it when p1 >= 0.
C5_SkewAmended ==
    (Returned /\ Len(result) = 2) =>
        \A p2 \in QuotingPositions :
            p2 > state.position =>
                /\ OrdersAt(p2)[1].quantity <= result[1].quantity
                /\ OrdersAt(p2)[2].quantity <= result[2].quantity
                /\ state.position >= 0 =>
                     OrdersAt(p2)[2].quantity = result[2].quantity

C5_Witness ==
    /\ Returned
    /\ Len(result) = 2
    /\ state.position = -6
    /\ result[2].quantity > OrdersAt(0)[2].quantity
    /\ result[1].quantity > OrdersAt(5)[1].quantity

\* C7: with timestamp < 400 the price shift and the quantity shift are 0 and
\* the returned orders are the same for every moving average.
C7_WarmUpGating ==
    (Returned /\ state.timestamp < 400) =>
        /\ ResvPrice = mid_vwap(state)
        /\ quantity_shift(state, sma) = 0
        /\ \A s \in SmaValues : market_making(state, TREND, s) = result

C7_Witness ==
    /\ Returned
    /\ state.timestamp = 300
    /\ Len(result) = 2
    /\ sma # mid_price(state)
    /\ market_making(TradingState(400, state.order_depth, state.position), TREND, sma)
         # result

\* C8: the candidate prices bracket the reservation price strictly:
\* bidPrice < reservationPrice < askPrice (stated for books that are not
\* crossed or locked, where the quoted spread is positive).
C8_StrictBracket ==
    (Returned /\ best_bid(state) < best_ask(state)) =>
        /\ bid_price(ResvPrice, QuotedSpread) * 1000 < ResvPrice
        /\ ask_price(ResvPrice, QuotedSpread) * 1000 > ResvPrice

\* C10: for every reservation price and every quoted spread, positive, zero
\* or negative, bidPrice < askPrice, also in every emitted two-sided quote.
C10_NotInverted ==
    Returned =>
        /\ bid_price(ResvPrice, QuotedSpread) < ask_price(ResvPrice, QuotedSpread)
        /\ (Len(result) = 2 /\ Abs(state.position) < 18) =>
               result[1].price < result[2].price

C10_Witness ==
    /\ Returned
    /\ Len(result) = 2
    /\ QuotedSpread <= 0
    /\ result[2].price = result[1].price + 1

-----------------------------------------------------------------------------
(* Claims about the window, checked under SpecUpd, Spec and SpecNoFail.    *)

\* the mid prices of the n most recent update_price calls, in arrival order
LastMids(n) == [i \in 1 .. n |-> arrivals[Len(arrivals) - n + i].mid_price]

\* more than 5 calls with timestamp > 400 have been made (timestamps never
\* decrease, so these are the 6 most recent calls)
MoreThanFiveLate ==
    /\ Len(arrivals) = 6
    /\ \A i \in 1 .. 6 : arrivals[i].timestamp > 400

\* C4: for non-decreasing timestamps from an empty window, once more than 5
\* calls with timestamp > 400 were made the window holds at most 5 entries
\* and equals the 5 most recent mid prices in arrival order.
C4_WindowBound ==
    MoreThanFiveLate =>
        /\ Len(data_price) <= 5
        /\ data_price = LastMids(5)

\* C6: a tick with an empty book side fails before update_price: it returns
\* no orders and leaves the window exactly as it was.
C6_FailedTick ==
    [][ StatusRaises(state') =>
          /\ pc' = "raised"
          /\ result' = << >>
          /\ data_price' = data_price ]_vars

C6_Witness ==
    /\ pc = "raised"
    /\ state.timestamp = 500
    /\ Len(data_price) = 4
    /\ DOMAIN state.order_depth.sell_orders # {}

\* C9: called once per timestamp 0, 100, ... with no failing tick, every call
\* with timestamp >= 400 reads a window of exactly 5 entries, the 5 most
\* recent mid prices, the last one the current mid price, and sma is their
\* mean; a shorter window is only read when both shifts are forced to 0.
C9_FullWindow ==
    Returned =>
        /\ state.timestamp >= 400 =>
             /\ Len(data_price) = 5
             /\ data_price[5] = mid_price(state)
             /\ data_price = LastMids(5)
             /\ 5 * sma = SumSeq(data_price)
        /\ Len(data_price) < 5 =>
             /\ ResvPrice = mid_vwap(state)
             /\ quantity_shift(state, sma) = 0

C9_Witness ==
    /\ Returned
    /\ state.timestamp = 600
    /\ Len(data_price) = 5
    /\ data_price[1] # data_price[5]
    /\ ResvPrice # mid_vwap(state)

====
